---- MODULE Spec2Model ----
(***************************************************************************)
(* Model of Personalmanager.py: a Streamlit script that keeps a ledger of  *)
(* financial entries in financial_data.csv and recomputes a dashboard from *)
(* it on every script run.                                                 *)
(*                                                                         *)
(* One action is one complete run of the script (Streamlit re-executes the *)
(* whole file on every interaction): a plain rerun, a rerun triggered by   *)
(* the "Add Entry" form, a rerun triggered by "Save DataFrame Edits".      *)
(*                                                                         *)
(* Amounts are whole numbers (units of the smallest amount entered).  The  *)
(* chart calls (px.bar, px.pie, st.plotly_chart) belong to the             *)
(* presentation layer: the model takes them to return and records the      *)
(* tables handed to them.                                                  *)
(***************************************************************************)
EXTENDS Integers, Sequences, FiniteSets, TLC

\* ------------------------------------------------------------------ bounds
\* Largest number of rows the ledger is allowed to grow to.
MaxLen == 2
\* The positive amount the form is given.
MaxAmount == 1

\* ------------------------------------------------------- the form's inputs
\* st.date_input: dates a user enters; two months, across a year boundary.
DateInputs == { <<2023, 12, 31>>, <<2024, 1, 5>> }
\* st.selectbox("Entry Type", ...)
TypeOptions == { "Income", "Expense", "Asset", "Liability" }
\* st.selectbox("Source/Account", ...): the preselected first option.
SourceInputs == { "Cash" }
\* st.text_input("Category ..."): left empty, a placeholder text, a label.
CategoryInputs == { "", "N/A", "Rent" }
\* st.text_input("Description"): left empty.
DescriptionInputs == { "" }
\* st.number_input("Amount", min_value=0.0): the minimum or a positive
\* amount, never a value below the minimum.
AmountInputs_NoMin == { -1, 0, MaxAmount }
AmountInputs == { 0, MaxAmount }

\* Dates handed to calculate_net_income as start_date / end_date.
RangeDates == DateInputs \cup { <<2023, 12, 1>> }
\* Python's None for an omitted start_date / end_date.
None == << >>

\* ------------------------------------------------------------ CSV storage
\* The missing value (float nan) pandas puts in a cell it reads as missing.
NaN == "float:nan"
\* The texts pd.read_csv reads as missing by default (keep_default_na).
NA_VALUES == { "", "#N/A", "#N/A N/A", "#NA", "-1.#IND", "-1.#QNAN", "-NaN",
               "-nan", "1.#IND", "1.#QNAN", "<NA>", "N/A", "NA", "NULL",
               "NaN", "None", "n/a", "nan", "null" }

\* pd.read_csv on one text cell.  (None of the texts entered here reads as
\* a number or a boolean, so a column of them stays a column of texts.)
read_cell(text) == IF text \in NA_VALUES THEN NaN ELSE text
\* DataFrame.to_csv on one text cell (na_rep = '').
write_cell(v) == IF v = NaN THEN "" ELSE v

\* pd.read_csv + pd.to_datetime on one row; dates and amounts are written
\* in a form that reads back to the same value.
read_row(row) ==
    [ Date        |-> row.Date,
      Type        |-> read_cell(row.Type),
      Category    |-> read_cell(row.Category),
      Description |-> read_cell(row.Description),
      Amount      |-> row.Amount,
      Source      |-> read_cell(row.Source) ]

write_row(r) ==
    [ Date        |-> r.Date,
      Type        |-> write_cell(r.Type),
      Category    |-> write_cell(r.Category),
      Description |-> write_cell(r.Description),
      Amount      |-> r.Amount,
      Source      |-> write_cell(r.Source) ]

read_csv(rows) == [ i \in 1 .. Len(rows) |-> read_row(rows[i]) ]
to_csv(df) == [ i \in 1 .. Len(df) |-> write_row(df[i]) ]

\* The backing file before the program has ever run.
NoFile == [ exists |-> FALSE, rows |-> << >> ]

\* load_data(): the DataFrame it returns ...
load_data(f) == IF f.exists THEN read_csv(f.rows) ELSE << >>
\* ... and the file it leaves (a missing file is created with the header).
file_after_load(f) == IF f.exists THEN f ELSE [ exists |-> TRUE, rows |-> << >> ]

\* save_data(df): the file after the whole frame is written.
save_data(df) == [ exists |-> TRUE, rows |-> to_csv(df) ]

\* The row the form handler builds from the widgets' values.
new_row(d, t, c, desc, a, s) ==
    [ Date |-> d, Type |-> t, Category |-> c, Description |-> desc,
      Amount |-> a, Source |-> s ]

VARIABLES
    file,                  \* financial_data.csv
    df_data,               \* the script's DataFrame
    rendered,              \* the page (form, button) has been drawn
    message,               \* the st.success / st.error text of the run
    current_net_worth,
    net_income_all_time,   \* total income, total expenses, net income
    monthly_summary,
    expense_summary,
    positions_summary

vars == << file, df_data, rendered, message, current_net_worth,
           net_income_all_time, monthly_summary, expense_summary,
           positions_summary >>

\* --------------------------------------------------------- the dashboard
\* Series.sum() of the Amount column of a frame.
RECURSIVE SumAmount(_)
SumAmount(df) == IF df = << >> THEN 0 ELSE Head(df).Amount + SumAmount(Tail(df))

\* df[df['Type'] == t]
OfType(df, t) == SelectSeq(df, LAMBDA r : r.Type = t)

\* calculate_net_worth(df)
calculate_net_worth_AddsLiabilities(df) ==
    SumAmount(OfType(df, "Asset")) + SumAmount(OfType(df, "Liability"))
calculate_net_worth(df) ==
    LET assets      == SumAmount(OfType(df, "Asset"))
        liabilities == SumAmount(OfType(df, "Liability"))
    IN  assets - liabilities

\* Timestamp comparison, a <= b.
DateLE(a, b) ==
    \/ a[1] < b[1]
    \/ a[1] = b[1] /\ a[2] < b[2]
    \/ a[1] = b[1] /\ a[2] = b[2] /\ a[3] <= b[3]

\* calculate_net_income(df, start_date, end_date)
calculate_net_income_NoEndBound(df, start_date, end_date) ==
    LET df_filtered == SelectSeq(df, LAMBDA r : r.Type = "Income" \/ r.Type = "Expense")
        in_range    == IF start_date # None /\ end_date # None
                       THEN SelectSeq(df_filtered, LAMBDA r : DateLE(start_date, r.Date))
                       ELSE df_filtered
        total_income   == SumAmount(OfType(in_range, "Income"))
        total_expenses == SumAmount(OfType(in_range, "Expense"))
    IN  << total_income, total_expenses, total_income - total_expenses >>
calculate_net_income(df, start_date, end_date) ==
    LET df_filtered == SelectSeq(df, LAMBDA r : r.Type = "Income" \/ r.Type = "Expense")
        in_range    == IF start_date # None /\ end_date # None
                       THEN SelectSeq(df_filtered,
                                LAMBDA r : DateLE(start_date, r.Date) /\ DateLE(r.Date, end_date))
                       ELSE df_filtered
        total_income   == SumAmount(OfType(in_range, "Income"))
        total_expenses == SumAmount(OfType(in_range, "Expense"))
    IN  << total_income, total_expenses, total_income - total_expenses >>

\* df['Date'].dt.to_period('M'): the year and month of a date.
MonthOf(date) == << date[1], date[2] >>
\* Chronological order of two months, a before b.
MonthLT(a, b) == a[1] < b[1] \/ (a[1] = b[1] /\ a[2] < b[2])

\* The elements of a set of months, earliest first.
RECURSIVE Ascending(_)
Ascending(S) ==
    IF S = {} THEN << >>
    ELSE LET m == CHOOSE x \in S : \A y \in S : x = y \/ MonthLT(x, y)
         IN  << m >> \o Ascending(S \ {m})

\* The months of a frame in the order in which its rows first show them.
RECURSIVE FirstSeen(_, _)
FirstSeen(df, seen) ==
    IF df = << >> THEN << >>
    ELSE LET m == MonthOf(Head(df).Date)
         IN  IF m \in seen THEN FirstSeen(Tail(df), seen)
             ELSE << m >> \o FirstSeen(Tail(df), seen \cup {m})

\* The index of monthly_summary: groupby sorts its keys, sort_index sorts
\* the months again as dates.
summary_index_StorageOrder(df_income_expenses) == FirstSeen(df_income_expenses, {})
summary_index(df_income_expenses) ==
    Ascending({ MonthOf(df_income_expenses[i].Date) : i \in DOMAIN df_income_expenses })

\* groupby(['Month', 'Type'])['Amount'].sum().unstack(fill_value=0): one
\* column per Type found in the frame, 0 where a month has no row of it.
unstack(df_income_expenses, month) ==
    LET columns == { df_income_expenses[i].Type : i \in DOMAIN df_income_expenses }
        group(t) == SelectSeq(df_income_expenses,
                              LAMBDA r : MonthOf(r.Date) = month /\ r.Type = t)
    IN  [ t \in columns |->
            LET rows == group(t) IN IF rows = << >> THEN 0 ELSE SumAmount(rows) ]

\* The "Financial Trends" block: monthly_summary.
monthly_summary_of(df) ==
    IF df = << >> THEN << >>
    ELSE LET df_income_expenses ==
                 SelectSeq(df, LAMBDA r : r.Type = "Income" \/ r.Type = "Expense")
             index == summary_index(df_income_expenses)
         IN  [ k \in 1 .. Len(index) |->
                 [ Month |-> index[k], Amounts |-> unstack(df_income_expenses, index[k]) ] ]

\* df_expenses.groupby('Category')['Amount'].sum(): groupby leaves out the
\* rows whose key is missing (dropna).
expense_summary_of(df) ==
    IF df = << >> THEN << >>
    ELSE LET df_expenses == OfType(df, "Expense")
             keys == { df_expenses[i].Category : i \in DOMAIN df_expenses } \ { NaN }
         IN  [ c \in keys |-> SumAmount(SelectSeq(df_expenses, LAMBDA r : r.Category = c)) ]

\* df_positions.groupby('Type')['Amount'].sum()
positions_summary_ZeroFilled(df) ==
    IF df = << >> THEN << >>
    ELSE [ t \in { "Asset", "Liability" } |-> SumAmount(OfType(df, t)) ]
positions_summary_of(df) ==
    IF df = << >> THEN << >>
    ELSE LET df_positions ==
                 SelectSeq(df, LAMBDA r : r.Type = "Asset" \/ r.Type = "Liability")
             keys == { df_positions[i].Type : i \in DOMAIN df_positions }
         IN  [ t \in keys |-> SumAmount(OfType(df_positions, t)) ]

\* Everything the script computes from df_data once the sidebar is done.
Dashboard(df) ==
    /\ df_data' = df
    /\ current_net_worth' = calculate_net_worth(df)
    /\ net_income_all_time' = calculate_net_income(df, None, None)
    /\ monthly_summary' = monthly_summary_of(df)
    /\ expense_summary' = expense_summary_of(df)
    /\ positions_summary' = positions_summary_of(df)
    /\ rendered' = TRUE

\* ---------------------------------------------------------------- actions
Init ==
    /\ file = NoFile
    /\ df_data = << >>
    /\ rendered = FALSE
    /\ message = ""
    /\ current_net_worth = 0
    /\ net_income_all_time = << 0, 0, 0 >>
    /\ monthly_summary = << >>
    /\ expense_summary = << >>
    /\ positions_summary = << >>

\* A run with no widget triggered: opening the page, a refresh.
Rerun ==
    /\ file' = file_after_load(file)
    /\ message' = ""
    /\ Dashboard(load_data(file))

\* A run triggered by "Add Entry": the row is appended to the frame loaded
\* at the top of the script and the whole frame is saved.
SubmitEntry ==
    /\ rendered
    /\ Len(file.rows) < MaxLen
    /\ \E entry_date \in DateInputs, entry_type \in TypeOptions,
          entry_source \in SourceInputs, entry_category \in CategoryInputs,
          entry_description \in DescriptionInputs, entry_amount \in AmountInputs :
          LET row == new_row(entry_date, entry_type, entry_category,
                             entry_description, entry_amount, entry_source)
              df  == Append(load_data(file), row)
          IN  /\ file' = save_data(df)
              /\ message' = "Entry added successfully!"
              /\ Dashboard(df)

\* Where the storage may fail while the button's handler runs.
Faults == { "none", "load", "save" }

\* A run triggered by "Save DataFrame Edits": the dashboard is drawn from
\* the frame loaded at the top, then the handler loads and saves again; an
\* exception of either call is caught and shown.
SaveEdits ==
    /\ rendered
    /\ Dashboard(load_data(file))
    /\ \E fault \in Faults :
          IF fault = "none"
          THEN /\ file' = save_data(load_data(file_after_load(file)))
               /\ message' = "Dataframe changes saved!"
          ELSE /\ file' = file_after_load(file)
               /\ message' = "Failed to save changes"

Next == Rerun \/ SubmitEntry \/ SaveEdits

Spec == Init /\ [][Next]_vars

\* The program started on a backing file that holds a row it did not write
\* itself: load_data reads any financial_data.csv it finds.
ForeignRows ==
    { new_row(d, "Investment", c, "", a, "Other") :
        d \in DateInputs, c \in { "Stocks", "N/A" }, a \in AmountInputs }

InitForeign ==
    /\ file \in { [ exists |-> TRUE, rows |-> << r >> ] : r \in ForeignRows }
    /\ df_data = << >>
    /\ rendered = FALSE
    /\ message = ""
    /\ current_net_worth = 0
    /\ net_income_all_time = << 0, 0, 0 >>
    /\ monthly_summary = << >>
    /\ expense_summary = << >>
    /\ positions_summary = << >>

SpecForeign == InitForeign /\ [][Next]_vars

\* ----------------------------------------------------------------- claims
\* The sum of the amounts of the rows of df whose index is in I, written
\* over the index set and not over a filtered frame.
RECURSIVE SumIdx(_, _)
SumIdx(df, I) ==
    IF I = {} THEN 0
    ELSE LET i == CHOOSE j \in I : TRUE
         IN  df[i].Amount + SumIdx(df, I \ {i})

\* The indices of the rows of df of type t.
Rows(df, t) == { i \in DOMAIN df : df[i].Type = t }

\* The sum of the values of a mapping.
RECURSIVE SumMap(_, _)
SumMap(f, K) ==
    IF K = {} THEN 0
    ELSE LET k == CHOOSE j \in K : TRUE
         IN  f[k] + SumMap(f, K \ {k})

\* A date and a month as one number, for comparing them.
DayNumber(d) == d[1] * 10000 + d[2] * 100 + d[3]
MonthNumber(m) == m[1] * 12 + m[2]

\* Every reordering of the rows of a frame.
Perms(df) == { [ i \in DOMAIN df |-> df[p[i]] ] : p \in Permutations(DOMAIN df) }

\* C1: the net worth shown is the sum of the Asset amounts minus the sum of
\* the Liability amounts; Income and Expense rows add nothing to it, and it
\* is 0 for the empty ledger.
C1_NetWorth ==
    rendered =>
        /\ current_net_worth
             = SumIdx(df_data, Rows(df_data, "Asset")) - SumIdx(df_data, Rows(df_data, "Liability"))
        /\ current_net_worth
             = calculate_net_worth(
                   SelectSeq(df_data, LAMBDA r : r.Type # "Income" /\ r.Type # "Expense"))
        /\ (df_data = << >> => current_net_worth = 0)

\* C1 witness: a ledger with a liability and an income row, whose net worth
\* is negative.
C1_Witness ==
    /\ rendered
    /\ current_net_worth < 0
    /\ \E i \in DOMAIN df_data : df_data[i].Type = "Income" /\ df_data[i].Amount > 0

\* C2: calculate_net_income returns the Income total, the Expense total and
\* their difference over the rows dated within [start, end], both ends
\* included; with no range every Income/Expense row counts; with start after
\* end the result is (0, 0, 0).
C2_NetIncome ==
    rendered =>
        /\ net_income_all_time
             = << SumIdx(df_data, Rows(df_data, "Income")),
                  SumIdx(df_data, Rows(df_data, "Expense")),
                  SumIdx(df_data, Rows(df_data, "Income"))
                    - SumIdx(df_data, Rows(df_data, "Expense")) >>
        /\ \A s \in RangeDates, e \in RangeDates :
             LET within(t) == { i \in Rows(df_data, t) :
                                  /\ DayNumber(s) <= DayNumber(df_data[i].Date)
                                  /\ DayNumber(df_data[i].Date) <= DayNumber(e) }
                 result == calculate_net_income(df_data, s, e)
             IN  /\ result[1] = SumIdx(df_data, within("Income"))
                 /\ result[2] = SumIdx(df_data, within("Expense"))
                 /\ result[3] = result[1] - result[2]
                 /\ (DayNumber(s) > DayNumber(e) => result = << 0, 0, 0 >>)

\* C2 witness: a range whose last day holds a counted row while a later row
\* is left out.
C2_Witness ==
    /\ rendered
    /\ \E s \in RangeDates, e \in RangeDates :
         /\ DayNumber(s) < DayNumber(e)
         /\ \E i \in DOMAIN df_data :
              /\ df_data[i].Type = "Income" /\ df_data[i].Amount > 0
              /\ df_data[i].Date = e
         /\ \E j \in DOMAIN df_data :
              /\ df_data[j].Type = "Expense" /\ df_data[j].Amount > 0
              /\ DayNumber(df_data[j].Date) > DayNumber(e)
         /\ calculate_net_income(df_data, s, e) # net_income_all_time

\* C3: once a run has computed the dashboard, the ledger it was computed
\* over holds only rows of the four kinds (a row of another kind is
\* rejected before any aggregation).
C3_InvalidRecordRejected ==
    rendered => \A i \in DOMAIN df_data : df_data[i].Type \in TypeOptions

\* C4: a form submission leaves every row persisted before it in place and
\* unchanged and adds exactly one row at the end.
C4_AppendOnly ==
    [][ message' = "Entry added successfully!" =>
          /\ Len(file'.rows) = Len(file.rows) + 1
          /\ \A i \in DOMAIN file.rows : file'.rows[i] = file.rows[i] ]_vars

C6_MonthlyOrder ==
    rendered =>
        LET months == { MonthOf(df_data[i].Date) :
                          i \in Rows(df_data, "Income") \cup Rows(df_data, "Expense") }
        IN  /\ { monthly_summary[k].Month : k \in DOMAIN monthly_summary } = months
            /\ Len(monthly_summary) = Cardinality(months)
            /\ \A j, k \in DOMAIN monthly_summary :
                 j < k => MonthNumber(monthly_summary[j].Month)
                            < MonthNumber(monthly_summary[k].Month)
            /\ \A p \in Perms(df_data) : monthly_summary_of(p) = monthly_summary
            /\ (df_data = << >> => monthly_summary = << >>)

\* C6 witness: two months in the summary, stored latest first.
C6_Witness ==
    /\ rendered
    /\ Len(monthly_summary) = 2
    /\ Len(df_data) >= 2
    /\ DayNumber(df_data[1].Date) > DayNumber(df_data[2].Date)

\* C7: the totals of expense_summary add up to the sum of the amounts of
\* all Expense rows of the ledger, also after the ledger was saved and
\* loaded again.
C7_BreakdownComplete ==
    rendered =>
        SumMap(expense_summary, DOMAIN expense_summary)
          = SumIdx(df_data, Rows(df_data, "Expense"))

\* C8: positions_summary has an entry for exactly the kinds among Asset and
\* Liability that have a row, each the sum of that kind's amounts; a kind
\* with no row has no entry.
C8_Positions ==
    rendered =>
        /\ DOMAIN positions_summary
             = { t \in { "Asset", "Liability" } : Rows(df_data, t) # {} }
        /\ \A t \in DOMAIN positions_summary :
             positions_summary[t] = SumIdx(df_data, Rows(df_data, t))
        /\ Cardinality(DOMAIN positions_summary) <= 2

\* C8 witness: liabilities only, next to a row of another kind.
C8_Witness ==
    /\ rendered
    /\ DOMAIN positions_summary = { "Liability" }
    /\ positions_summary["Liability"] > 0
    /\ \E i \in DOMAIN df_data : df_data[i].Type = "Income"

\* C9: every row of monthly_summary has an Income and an Expense value.
C9_BothKinds ==
    \A k \in DOMAIN monthly_summary :
        DOMAIN monthly_summary[k].Amounts = { "Income", "Expense" }

\* C10: a press of "Save DataFrame Edits" leaves the persisted rows as they
\* were, whether the handler reports success or a storage failure.
C10_SaveEditsKeepsFile ==
    [][ message' \in { "Dataframe changes saved!", "Failed to save changes" } =>
          file'.rows = file.rows ]_vars

====
